---------------------------- MODULE Spec2Model ----------------------------
(***************************************************************************)
(* A model of src/src/main.rs: the cursor Input<char> with its match       *)
(* primitives, the recursive-descent rule Iterator::next that parses one   *)
(* JSON-like value, and the two consumers of that iterator found in the    *)
(* file: the for loop of main and a direct caller of next() (as the test   *)
(* does).                                                                  *)
(*                                                                         *)
(* A character is a one-character string; the input Vec<char> is a         *)
(* sequence of characters.  location is the zero-based index of the        *)
(* source, so self.input[self.location] is input[location + 1].            *)
(***************************************************************************)
EXTENDS Integers, Sequences, FiniteSets, TLC

VARIABLES doc, input, location, stack, ret, results, out, mode, phase, last

vars == <<doc, input, location, stack, ret, results, out, mode, phase, last>>

---------------------------------------------------------------------------
(* Characters and the character classes used by the closures of next().    *)

Quote == "\""

\* A character outside ASCII (U+00E9), two bytes in UTF-8.
NonAscii == "U+00E9"

Digits == {"0", "1", "2", "3", "4", "5", "6", "7", "8", "9"}

Letters ==
    {"a", "b", "c", "d", "e", "f", "g", "h", "i", "j", "k", "l", "m",
     "n", "o", "p", "q", "r", "s", "t", "u", "v", "w", "x", "y", "z",
     "A", "B", "C", "D", "E", "F", "G", "H", "I", "J", "K", "L", "M",
     "N", "O", "P", "Q", "R", "S", "T", "U", "V", "W", "X", "Y", "Z"}

\* char::is_ascii_whitespace: space, tab, line feed, form feed, carriage return.
Whitespace == {" ", "\t", "\n", "\f", "\r"}

Punctuation ==
    {"!", Quote, "#", "$", "%", "&", "(", ")", "*", "+", ",", "-", ".",
     "/", ":", ";", "<", "=", ">", "?", "@", "[", "\\", "]", "^", "_",
     "{", "|", "}", "~"}

\* char::is_ascii on the characters of the model: the printable characters
\* (apostrophe and grave accent left out) and the whitespace controls.
AsciiChars == Digits \cup Letters \cup Whitespace \cup Punctuation

\* |c| c.is_ascii_digit()
IsDigit == Digits

\* |c| c.is_ascii() && c != '"'
IsStringChar == AsciiChars \ {Quote}

\* |c| c.is_ascii_alphanumeric() && c != '"'
IsKeyChar == (Digits \cup Letters) \ {Quote}

\* The number of bytes of a character in UTF-8.
Utf8Len(c) == IF c \in AsciiChars THEN 1 ELSE 2

RECURSIVE StrLen(_)
\* str::len: the length of a string slice in bytes.
StrLen(s) == IF s = <<>> THEN 0 ELSE Utf8Len(Head(s)) + StrLen(Tail(s))

---------------------------------------------------------------------------
(* The cursor primitives, as functions of the cursor (inp, loc).           *)

parse_str_overrun(inp, loc, s) ==
    LET n == StrLen(s)
        k == IF loc + n > Len(inp) THEN Len(inp) - loc ELSE n
    IN  IF SubSeq(inp, loc + 1, loc + k) = SubSeq(s, 1, k)
        THEN [ok |-> TRUE, loc |-> loc + n]
        ELSE [ok |-> FALSE, loc |-> loc]

parse_str_partial(inp, loc, s) ==
    LET n == StrLen(s)
    IN  IF loc + n > Len(inp)
        THEN [ok |-> FALSE, loc |-> loc]
        ELSE IF SubSeq(inp, loc + 1, loc + n) = s
             THEN [ok |-> TRUE, loc |-> loc + n]
             ELSE [ok |-> FALSE,
                   loc |-> IF inp[loc + 1] = s[1] THEN loc + 1 ELSE loc]

parse_char(inp, loc, c) ==
    IF loc + 1 > Len(inp)
    THEN [ok |-> FALSE, loc |-> loc]
    ELSE IF inp[loc + 1] = c
         THEN [ok |-> TRUE, loc |-> loc + 1]
         ELSE [ok |-> FALSE, loc |-> loc]

parse_str(inp, loc, s) ==
    LET n == StrLen(s)
    IN  IF loc + n > Len(inp)
        THEN [ok |-> FALSE, loc |-> loc]
        ELSE IF SubSeq(inp, loc + 1, loc + n) = s
             THEN [ok |-> TRUE, loc |-> loc + n]
             ELSE [ok |-> FALSE, loc |-> loc]

RECURSIVE ScanWhile(_, _, _)
\* The loop of parse_while: the first index at or after idx that is the end
\* of the input or holds a character outside p.
ScanWhile(inp, idx, p) ==
    IF idx < Len(inp) /\ inp[idx + 1] \in p
    THEN ScanWhile(inp, idx + 1, p)
    ELSE idx

parse_while_empty(inp, loc, p) ==
    LET idx == ScanWhile(inp, loc, p)
    IN  [some |-> TRUE, val |-> SubSeq(inp, loc + 1, idx), loc |-> idx]

parse_while(inp, loc, p) ==
    LET idx == ScanWhile(inp, loc, p)
    IN  IF idx = loc
        THEN [some |-> FALSE, loc |-> loc]
        ELSE [some |-> TRUE, val |-> SubSeq(inp, loc + 1, idx), loc |-> idx]

RECURSIVE parse_whitespace_spaces(_, _)
parse_whitespace_spaces(inp, loc) ==
    IF loc < Len(inp) /\ inp[loc + 1] = " "
    THEN parse_whitespace_spaces(inp, loc + 1)
    ELSE loc

RECURSIVE parse_whitespace(_, _)
parse_whitespace(inp, loc) ==
    IF loc < Len(inp) /\ inp[loc + 1] \in Whitespace
    THEN parse_whitespace(inp, loc + 1)
    ELSE loc

---------------------------------------------------------------------------
(* JsonValue, and Option<JsonValue> as returned by next().                 *)

JsonNull == [tag |-> "JsonNull"]
JsonBool(b) == [tag |-> "JsonBool", b |-> b]
\* JsonNumber(usize).  The number is kept as its decimal numeral without
\* leading zeros: a usize of 64 bits does not fit the integers of the checker.
JsonNumber(n) == [tag |-> "JsonNumber", n |-> n]
JsonString(s) == [tag |-> "JsonString", s |-> s]
JsonArray(v) == [tag |-> "JsonArray", v |-> v]
\* JsonObject(HashMap<String, JsonValue>): a function from its keys.
JsonObject(m) == [tag |-> "JsonObject", m |-> m]

None == [some |-> FALSE]
Some(x) == [some |-> TRUE, val |-> x]

\* HashMap::new()
EmptyMap == <<>>

\* HashMap::insert: the value of an existing key is replaced.
Insert(m, k, v) == [x \in DOMAIN m \cup {k} |-> IF x = k THEN v ELSE m[x]]

---------------------------------------------------------------------------
(* s.parse::<usize>() on a nonempty run of ASCII digits.                   *)

DigitSeq == <<"0", "1", "2", "3", "4", "5", "6", "7", "8", "9">>

DigitVal(c) == (CHOOSE i \in 1..10 : DigitSeq[i] = c) - 1

\* usize::MAX on a 64-bit target, 18446744073709551615.
UsizeMax ==
    <<"1", "8", "4", "4", "6", "7", "4", "4", "0", "7",
      "3", "7", "0", "9", "5", "5", "1", "6", "1", "5">>

RECURSIVE StripZeros(_)
StripZeros(ds) ==
    IF Len(ds) > 1 /\ Head(ds) = "0" THEN StripZeros(Tail(ds)) ELSE ds

RECURSIVE NumeralLeq(_, _)
\* a <= b for numerals of the same length.
NumeralLeq(a, b) ==
    IF a = <<>> THEN TRUE
    ELSE IF DigitVal(Head(a)) < DigitVal(Head(b)) THEN TRUE
    ELSE IF DigitVal(Head(a)) > DigitVal(Head(b)) THEN FALSE
    ELSE NumeralLeq(Tail(a), Tail(b))

FitsUsize(n) ==
    \/ Len(n) < Len(UsizeMax)
    \/ Len(n) = Len(UsizeMax) /\ NumeralLeq(n, UsizeMax)

\* Ok(n), or Err(PosOverflow) when the number exceeds usize::MAX.
ParseUsize(ds) ==
    LET n == StripZeros(ds)
    IN  IF FitsUsize(n) THEN [ok |-> TRUE, val |-> n] ELSE [ok |-> FALSE]

---------------------------------------------------------------------------
(* The inputs.                                                             *)

NullLit == <<"n", "u", "l", "l">>
TrueLit == <<"t", "r", "u", "e">>
FalseLit == <<"f", "a", "l", "s", "e">>

RECURSIVE Flatten(_)
\* The concatenation of a sequence of sequences.
Flatten(ss) == IF ss = <<>> THEN <<>> ELSE Head(ss) \o Flatten(Tail(ss))

\* The most tokens of an arbitrary input.
MaxTokens == 3

\* The most tokens of an input on which the primitives are called one by one.
MaxCursorTokens == 2

\* The most nodes (scalars and containers) of a generated document.
MaxNodes == 3

\* The most top-level values of a generated input of several values.
MaxValues == 3

\* The most tokens and the most nodes of the inputs on which termination is
\* checked.
MaxLiveTokens == 1
MaxLiveNodes == 2

Tokens ==
    {NullLit, <<"n", "u", "l">>, <<"1">>, <<Quote>>, <<"a">>, <<"[">>, <<"]">>,
     <<"{">>, <<"}">>, <<",">>, <<" ">>}

RECURSIVE TokenStrings(_)
\* The inputs made of exactly n tokens.
TokenStrings(n) ==
    IF n = 0 THEN {<<>>}
    ELSE {t \o s : t \in Tokens, s \in TokenStrings(n - 1)}

(* The whitespace a document is written with: the run put after an opening *)
(* delimiter, before and after ':', before and after ',', and before a     *)
(* closing delimiter.                                                      *)
Compact ==
    [open |-> <<>>, pre_colon |-> <<>>, post_colon |-> <<>>,
     pre_comma |-> <<>>, post_comma |-> <<>>, close |-> <<>>]

\* A space after ':' and after ',', as the document of test_full is written.
AfterSep == [Compact EXCEPT !.post_colon = <<" ">>, !.post_comma = <<" ">>]

\* A run of every ASCII whitespace character.
WsRun == <<"\t", "\n", "\f", "\r", " ">>

\* Optional whitespace inside the brackets, around the separators, and a space
\* at every place.
Spaced ==
    {[Compact EXCEPT !.open = WsRun, !.close = WsRun],
     [Compact EXCEPT !.pre_colon = WsRun, !.post_colon = WsRun,
                     !.pre_comma = WsRun, !.post_comma = WsRun],
     [open |-> <<" ">>, pre_colon |-> <<" ">>, post_colon |-> <<" ">>,
      pre_comma |-> <<" ">>, post_comma |-> <<" ">>, close |-> <<" ">>]}

\* The keys of an object of n pairs: one key for every pair, or two keys in
\* turn.
KeySeqs(n) ==
    {[i \in 1..n |-> <<"a">>],
     [i \in 1..n |-> IF i % 2 = 1 THEN <<"k", "1">> ELSE <<"a">>]}

Quoted(s) == <<Quote>> \o s \o <<Quote>>

\* A written value: text is how it is written (with the whitespace of its
\* style), bare is that text without the optional whitespace, val is the
\* value the grammar gives it, and bad says that it holds an empty string
\* literal, which the dialect does not have.
Written(text, bare, val, bad) ==
    [text |-> text, bare |-> bare, val |-> val, bad |-> bad]

Scalars ==
    {Written(<<"1", "2">>, <<"1", "2">>, JsonNumber(<<"1", "2">>), FALSE),
     Written(Quoted(<<"a", " ", "b">>), Quoted(<<"a", " ", "b">>),
             JsonString(<<"a", " ", "b">>), FALSE),
     Written(Quoted(<<>>), Quoted(<<>>), JsonString(<<>>), TRUE)}

\* [ e1 , e2 , ... ] written in style st.
ArrayOf(l, st) ==
    LET n == Len(l)
        sep == st.pre_comma \o <<",">> \o st.post_comma
        item(i) == (IF i > 1 THEN sep ELSE <<>>) \o l[i].text
        bareitem(i) == (IF i > 1 THEN <<",">> ELSE <<>>) \o l[i].bare
    IN  Written(<<"[">> \o st.open \o Flatten([i \in 1..n |-> item(i)])
                    \o st.close \o <<"]">>,
                <<"[">> \o Flatten([i \in 1..n |-> bareitem(i)]) \o <<"]">>,
                JsonArray([i \in 1..n |-> l[i].val]),
                \E i \in 1..n : l[i].bad)

\* { "k1" : e1 , ... } written in style st, with the keys ks.  A key written
\* twice has the value written last.
ObjectOf(l, ks, st) ==
    LET n == Len(l)
        sep == st.pre_comma \o <<",">> \o st.post_comma
        pair(i) == (IF i > 1 THEN sep ELSE <<>>) \o Quoted(ks[i])
                       \o st.pre_colon \o <<":">> \o st.post_colon \o l[i].text
        barepair(i) == (IF i > 1 THEN <<",">> ELSE <<>>) \o Quoted(ks[i])
                           \o <<":">> \o l[i].bare
        lastof(k) == CHOOSE i \in 1..n :
                         /\ ks[i] = k
                         /\ \A j \in (i + 1)..n : ks[j] # k
    IN  Written(<<"{">> \o st.open \o Flatten([i \in 1..n |-> pair(i)])
                    \o st.close \o <<"}">>,
                <<"{">> \o Flatten([i \in 1..n |-> barepair(i)]) \o <<"}">>,
                JsonObject([k \in {ks[i] : i \in 1..n} |-> l[lastof(k)].val]),
                \E i \in 1..n : l[i].bad)

RECURSIVE Build(_, _, _)
\* acc[n] holds the written values of exactly n nodes in style st and, for
\* n < max, the nonempty sequences of written values of n nodes in all; Build
\* extends acc to max entries.
Build(acc, max, st) ==
    IF Len(acc) >= max
    THEN acc
    ELSE LET n == Len(acc) + 1
             values ==
                 IF n = 1
                 THEN Scalars \cup {ArrayOf(<<>>, st), ObjectOf(<<>>, <<>>, st)}
                 ELSE {ArrayOf(l, st) : l \in acc[n - 1].lists}
                      \cup UNION {{ObjectOf(l, ks, st) : ks \in KeySeqs(Len(l))} :
                                  l \in acc[n - 1].lists}
             lists ==
                 IF n = max
                 THEN {}
                 ELSE {<<g>> : g \in values}
                      \cup UNION {{<<g>> \o l : g \in acc[k].values,
                                                l \in acc[n - k].lists} :
                                  k \in 1..(n - 1)}
         IN  Build(Append(acc, [values |-> values, lists |-> lists]), max, st)

\* The written values of exactly n nodes, in style st.
Values(n, st) == Build(<<>>, n, st)[n].values

\* The written values of at most max nodes, in style st.
AllValues(st, max) ==
    LET built == Build(<<>>, max, st)
    IN  UNION {built[n].values : n \in 1..max}

\* The well-formed values of at most max nodes, compact or with a space after
\* ':' and ','.
WellFormed(max) ==
    {h \in AllValues(Compact, max) \cup AllValues(AfterSep, max) : ~h.bad}

\* The proper prefixes of the compact strings, arrays and objects of at most
\* max nodes.
Cut(max) ==
    UNION {{SubSeq(g.text, 1, n) : n \in 1..(Len(g.text) - 1)} :
           g \in {h \in AllValues(Compact, max) :
                     ~h.bad /\ h.val.tag # "JsonNull"
                            /\ h.val.tag # "JsonNumber"}}

IsContainer(g) == g.val.tag \in {"JsonArray", "JsonObject"}

(* A document is an input with what is known of how it was written: kind,  *)
(* the family it belongs to; text, the input; bare, the input without its  *)
(* optional whitespace; expect, the values the grammar gives it, in order. *)
Doc(kind, text, bare, expect) ==
    [kind |-> kind, text |-> text, bare |-> bare, expect |-> expect]

\* Arbitrary inputs.
Short(max) ==
    {Doc("short", t, t, <<>>) : t \in UNION {TokenStrings(n) : n \in 0..max}}

ShortDocs == Short(MaxTokens)

\* The inputs on which the primitives are called one by one.
CursorDocs == Short(MaxCursorTokens)

\* One well-formed value, compact or with a space after ':' and ','.
ValueDocs ==
    {Doc("value", g.text, g.bare, <<g.val>>) : g \in WellFormed(MaxNodes)}

\* One well-formed array or object with whitespace in the optional places.
SpacedDocs ==
    {Doc("spaced", g.text, g.bare, <<g.val>>) :
        g \in {h \in UNION {AllValues(st, MaxNodes) : st \in Spaced} :
                  ~h.bad /\ IsContainer(h) /\ h.text # h.bare}}

\* An empty string literal, alone or inside arrays and objects.
EmptyStringDocs ==
    {Doc("empty_string", g.text, g.bare, <<>>) :
        g \in {h \in AllValues(Compact, MaxNodes) : h.bad}}

\* A string, array or object cut before its end.
UnterminatedDocs == {Doc("unterminated", t, t, <<>>) : t \in Cut(MaxNodes)}

\* An array with a comma, and optional whitespace, before its closing bracket.
TrailingCommaDocs ==
    {Doc("trailing_comma",
         SubSeq(g.text, 1, Len(g.text) - 1) \o <<",">> \o w \o <<"]">>,
         SubSeq(g.bare, 1, Len(g.bare) - 1) \o <<",">> \o <<"]">>,
         <<>>) :
        g \in {h \in AllValues(Compact, MaxNodes) :
                  ~h.bad /\ h.val.tag = "JsonArray" /\ h.val.v # <<>>},
        w \in {<<>>, <<" ">>}}

RECURSIVE Several(_, _)
\* The inputs of n values of one node each, with w between them.
Several(n, w) ==
    IF n = 1
    THEN {[text |-> g.text, expect |-> <<g.val>>] :
             g \in {h \in Values(1, Compact) : ~h.bad}}
    ELSE {[text |-> g.text \o w \o r.text, expect |-> <<g.val>> \o r.expect] :
             g \in {h \in Values(1, Compact) : ~h.bad},
             r \in Several(n - 1, w)}

\* Several top-level values with whitespace between them.
SeveralDocs ==
    {Doc("several", r.text, r.text, r.expect) :
        r \in UNION {Several(n, w) : n \in 2..MaxValues,
                                     w \in {<<" ">>, <<"\n">>}}}

\* The input of test_full (line 189).
TestFullText ==
    <<"{", Quote, "k", "e", "y", "1", Quote, ":", " ", "{", Quote, "k",
      "e", "y", "1", Quote, ":", " ", Quote, "v", "a", "l", "u", "e",
      Quote, ",", " ", Quote, "k", "e", "y", "2", Quote, ":", " ", "[",
      "1", ",", " ", "2", ",", " ", "3", "]", "}", ",", " ", Quote, "k",
      "e", "y", "2", Quote, ":", " ", "[", "5", ",", " ", "4", ",", " ",
      "3", ",", " ", "2", ",", " ", "{", Quote, "k", "e", "y", "1", Quote,
      ":", " ", "0", "}", "]", "}">>

\* json_true of test_full (lines 196-227).
TestFullValue ==
    LET key1 == <<"k", "e", "y", "1">>
        key2 == <<"k", "e", "y", "2">>
        Num(d) == JsonNumber(<<d>>)
    IN  JsonObject(
            (key1 :> JsonObject(
                        (key1 :> JsonString(<<"v", "a", "l", "u", "e">>))
                        @@ (key2 :> JsonArray(<<Num("1"), Num("2"), Num("3")>>))))
            @@ (key2 :> JsonArray(<<Num("5"), Num("4"), Num("3"), Num("2"),
                                    JsonObject(key1 :> Num("0"))>>)))

\* usize::MAX + 1 on a 64-bit target, 18446744073709551616.
UsizeOver == SubSeq(UsizeMax, 1, Len(UsizeMax) - 1) \o <<"6">>

\* Inputs written out: those of the test and of the boundary cases of the
\* rules.
CorpusDocs ==
    {Doc("value", TestFullText,
         SelectSeq(TestFullText, LAMBDA c : c # " "), <<TestFullValue>>),
     Doc("value", TrueLit, TrueLit, <<JsonBool(TRUE)>>),
     Doc("value", FalseLit, FalseLit, <<JsonBool(FALSE)>>),
     Doc("value",
         <<"[">> \o NullLit \o <<",">> \o TrueLit \o <<",">> \o FalseLit
             \o <<"]">>,
         <<"[">> \o NullLit \o <<",">> \o TrueLit \o <<",">> \o FalseLit
             \o <<"]">>,
         <<JsonArray(<<JsonNull, JsonBool(TRUE), JsonBool(FALSE)>>)>>),
     Doc("value", <<"0", "0", "7">>, <<"0", "0", "7">>, <<JsonNumber(<<"7">>)>>),
     Doc("value", UsizeMax, UsizeMax, <<JsonNumber(UsizeMax)>>),
     Doc("value", UsizeOver, UsizeOver, <<JsonNumber(UsizeOver)>>),
     Doc("value", <<"[">> \o UsizeOver \o <<"]">>, <<"[">> \o UsizeOver \o <<"]">>,
         <<JsonArray(<<JsonNumber(UsizeOver)>>)>>),
     Doc("several", <<"1", " ", "2", " ", "3">>, <<"1", " ", "2", " ", "3">>,
         <<JsonNumber(<<"1">>), JsonNumber(<<"2">>), JsonNumber(<<"3">>)>>),
     Doc("trailing_comma", <<"[", "1", ",", "2", ",", "]">>,
         <<"[", "1", ",", "2", ",", "]">>, <<>>),
     Doc("unterminated", <<Quote, "a", "b", "c">>, <<Quote, "a", "b", "c">>, <<>>),
     Doc("unterminated", <<"{", Quote, "a", Quote, ":", "1">>,
         <<"{", Quote, "a", Quote, ":", "1">>, <<>>),
     Doc("short", <<Quote, Quote, "1", Quote>>, <<Quote, Quote, "1", Quote>>, <<>>),
     Doc("short", <<"{", Quote, "a", "-", "b", Quote, ":", "1", "}">>,
         <<"{", Quote, "a", "-", "b", Quote, ":", "1", "}">>, <<>>),
     Doc("short", <<Quote, "a", NonAscii, Quote>>, <<Quote, "a", NonAscii, Quote>>,
         <<>>)}

Documents ==
    ShortDocs \cup ValueDocs \cup SpacedDocs \cup EmptyStringDocs
        \cup UnterminatedDocs \cup TrailingCommaDocs \cup SeveralDocs
        \cup CorpusDocs

---------------------------------------------------------------------------
(* next() as a machine.  Each active invocation of next() is a frame of    *)
(* stack, the innermost last.  A frame holds the position in the code      *)
(* (pc), the locals v (array rule), m and k (object rule), and two history *)
(* fields: entry, the location at which the invocation began, and head,    *)
(* the location at the last evaluation of its loop condition.              *)
(*                                                                         *)
(* phase is the position of the consumer: "idle" (about to ask for the     *)
(* next item), "call" (inside next()), "ret" (next() has returned ret),    *)
(* "done" (the for loop has ended) or "panic" (the process has aborted).   *)
(* results is the history of what the consumer's calls returned; out is    *)
(* what main has printed.                                                  *)

Frame(loc) ==
    [pc |-> "start", v |-> <<>>, m |-> EmptyMap, k |-> <<>>,
     entry |-> loc, head |-> loc]

Top == stack[Len(stack)]

Pop == SubSeq(stack, 1, Len(stack) - 1)

SetTop(f) == [stack EXCEPT ![Len(stack)] = f]

\* return opt, with the cursor left at loc.
Return(opt, loc) ==
    /\ location' = loc
    /\ ret' = opt
    /\ stack' = Pop
    /\ IF Len(stack) = 1
       THEN /\ results' = Append(results, opt)
            /\ phase' = "ret"
       ELSE UNCHANGED <<results, phase>>
    /\ UNCHANGED <<doc, input, out, mode, last>>

AtPc(pc) == phase = "call" /\ stack # <<>> /\ Top.pc = pc

\* Lines 83-91: no literal matches at location.
NoLiteral ==
    /\ ~parse_str(input, location, NullLit).ok
    /\ ~parse_str(input, location, TrueLit).ok
    /\ ~parse_str(input, location, FalseLit).ok

\* Lines 83-94: neither a literal nor a run of digits.
NoScalar == NoLiteral /\ ~parse_while(input, location, IsDigit).some

ParseNull ==
    /\ AtPc("start")
    /\ parse_str(input, location, NullLit).ok
    /\ Return(Some(JsonNull), parse_str(input, location, NullLit).loc)

ParseTrue ==
    /\ AtPc("start")
    /\ ~parse_str(input, location, NullLit).ok
    /\ parse_str(input, location, TrueLit).ok
    /\ Return(Some(JsonBool(TRUE)), parse_str(input, location, TrueLit).loc)

ParseFalse ==
    /\ AtPc("start")
    /\ ~parse_str(input, location, NullLit).ok
    /\ ~parse_str(input, location, TrueLit).ok
    /\ parse_str(input, location, FalseLit).ok
    /\ Return(Some(JsonBool(FALSE)), parse_str(input, location, FalseLit).loc)

\* Lines 92-94.  unwrap() panics on Err: the process aborts.
ParseNumber ==
    /\ AtPc("start")
    /\ NoLiteral
    /\ LET s == parse_while(input, location, IsDigit)
       IN  /\ s.some
           /\ IF ParseUsize(s.val).ok
              THEN Return(Some(JsonNumber(ParseUsize(s.val).val)), s.loc)
              ELSE /\ location' = s.loc
                   /\ phase' = "panic"
                   /\ UNCHANGED <<doc, input, stack, ret, results, out, mode, last>>

\* Lines 95-105.
ParseString ==
    /\ AtPc("start")
    /\ NoScalar
    /\ LET q == parse_char(input, location, Quote)
       IN  /\ q.ok
           /\ LET s == parse_while(input, q.loc, IsStringChar)
              IN  IF s.some
                  THEN LET e == parse_char(input, s.loc, Quote)
                       IN  IF e.ok
                           THEN Return(Some(JsonString(s.val)), e.loc)
                           ELSE Return(None, e.loc)
                  ELSE Return(None, s.loc)

NoString == NoScalar /\ ~parse_char(input, location, Quote).ok

\* Lines 106-108.
BeginArray ==
    /\ AtPc("start")
    /\ NoString
    /\ LET b == parse_char(input, location, "[")
       IN  /\ b.ok
           /\ location' = parse_whitespace(input, b.loc)
           /\ stack' = SetTop([Top EXCEPT !.pc = "arr_head", !.v = <<>>])
           /\ UNCHANGED <<doc, input, ret, results, out, mode, phase, last>>

\* Line 109 with the loop condition false, then line 123.
ArrayEnd ==
    /\ AtPc("arr_head")
    /\ LET c == parse_char(input, location, "]")
       IN  /\ c.ok
           /\ Return(Some(JsonArray(Top.v)), c.loc)

\* Line 109 with the loop condition true, then the call of line 110.
ArrayNext ==
    /\ AtPc("arr_head")
    /\ ~parse_char(input, location, "]").ok
    /\ stack' = Append(SetTop([Top EXCEPT !.pc = "arr_elem",
                                             !.head = location]),
                       Frame(location))
    /\ UNCHANGED <<doc, input, location, ret, results, out, mode, phase, last>>

\* Lines 110-122, from the return of the call of line 110.
ArrayElemPartial ==
    /\ AtPc("arr_elem")
    /\ IF ~ret.some
       THEN Return(Some(JsonArray(Top.v)), location)
       ELSE LET v2 == Append(Top.v, ret.val)
                l1 == parse_whitespace(input, location)
                c  == parse_char(input, l1, "]")
                d  == parse_char(input, l1, ",")
            IN  IF c.ok
                THEN Return(Some(JsonArray(v2)), c.loc)
                ELSE IF ~d.ok
                     THEN Return(None, l1)
                     ELSE /\ location' = parse_whitespace(input, d.loc)
                          /\ stack' = SetTop([Top EXCEPT !.pc = "arr_head",
                                                         !.v = v2])
                          /\ UNCHANGED <<doc, input, ret, results, out, mode,
                                         phase, last>>

ArrayElem ==
    /\ AtPc("arr_elem")
    /\ IF ~ret.some
       THEN Return(None, location)
       ELSE LET v2 == Append(Top.v, ret.val)
                l1 == parse_whitespace(input, location)
                c  == parse_char(input, l1, "]")
                d  == parse_char(input, l1, ",")
            IN  IF c.ok
                THEN Return(Some(JsonArray(v2)), c.loc)
                ELSE IF ~d.ok
                     THEN Return(None, l1)
                     ELSE /\ location' = parse_whitespace(input, d.loc)
                          /\ stack' = SetTop([Top EXCEPT !.pc = "arr_head",
                                                         !.v = v2])
                          /\ UNCHANGED <<doc, input, ret, results, out, mode,
                                         phase, last>>

NoArray == NoString /\ ~parse_char(input, location, "[").ok

\* Lines 125-127.
BeginObject ==
    /\ AtPc("start")
    /\ NoArray
    /\ LET b == parse_char(input, location, "{")
       IN  /\ b.ok
           /\ location' = parse_whitespace(input, b.loc)
           /\ stack' = SetTop([Top EXCEPT !.pc = "obj_head", !.m = EmptyMap])
           /\ UNCHANGED <<doc, input, ret, results, out, mode, phase, last>>

\* Line 128 with the loop condition false, then line 161.
ObjectEnd ==
    /\ AtPc("obj_head")
    /\ LET c == parse_char(input, location, "}")
       IN  /\ c.ok
           /\ Return(Some(JsonObject(Top.m)), c.loc)

\* Line 128 with the loop condition true, then lines 129-135: the key, the
\* colon and the call of next(), or return None.
ObjectKey ==
    /\ AtPc("obj_head")
    /\ ~parse_char(input, location, "}").ok
    /\ LET q  == parse_char(input, location, Quote)
           k  == parse_while(input, q.loc, IsKeyChar)
           e  == parse_char(input, k.loc, Quote)
           l1 == parse_whitespace(input, e.loc)
           c  == parse_char(input, l1, ":")
           l2 == parse_whitespace(input, c.loc)
       IN  IF ~q.ok THEN Return(None, q.loc)
           ELSE IF ~k.some THEN Return(None, k.loc)
           ELSE IF ~e.ok THEN Return(None, e.loc)
           ELSE IF ~c.ok THEN Return(None, l1)
           ELSE /\ location' = l2
                /\ stack' = Append(SetTop([Top EXCEPT !.pc = "obj_elem",
                                                         !.k = k.val,
                                                         !.head = location]),
                                   Frame(l2))
                /\ UNCHANGED <<doc, input, ret, results, out, mode, phase, last>>

\* Lines 135-160, from the return of the call of line 135.
ObjectElem ==
    /\ AtPc("obj_elem")
    /\ IF ~ret.some
       THEN Return(None, location)
       ELSE LET m2 == Insert(Top.m, Top.k, ret.val)
                l1 == parse_whitespace(input, location)
                c  == parse_char(input, l1, "}")
                d  == parse_char(input, l1, ",")
            IN  IF c.ok
                THEN Return(Some(JsonObject(m2)), c.loc)
                ELSE IF ~d.ok
                     THEN Return(None, l1)
                     ELSE /\ location' = parse_whitespace(input, d.loc)
                          /\ stack' = SetTop([Top EXCEPT !.pc = "obj_head",
                                                         !.m = m2])
                          /\ UNCHANGED <<doc, input, ret, results, out, mode,
                                         phase, last>>

\* Line 164.
NoValue ==
    /\ AtPc("start")
    /\ NoArray
    /\ ~parse_char(input, location, "{").ok
    /\ Return(None, location)

\* One step of next().
Step ==
    \/ ParseNull \/ ParseTrue \/ ParseFalse \/ ParseNumber \/ ParseString
    \/ BeginArray \/ ArrayEnd \/ ArrayNext \/ ArrayElem
    \/ BeginObject \/ ObjectEnd \/ ObjectKey \/ ObjectElem
    \/ NoValue

---------------------------------------------------------------------------
(* The consumers of the iterator.                                          *)

\* The number of calls of next() a direct caller makes at most.
MaxCalls == 3

\* Line 175: the for loop asks for the next item.
MainNext ==
    /\ mode = "main"
    /\ phase = "idle"
    /\ stack' = <<Frame(location)>>
    /\ phase' = "call"
    /\ UNCHANGED <<doc, input, location, ret, results, out, mode, last>>

\* Lines 175-176: Some(item) enters the loop body, which prints the item.
MainItem ==
    /\ mode = "main"
    /\ phase = "ret"
    /\ ret.some
    /\ out' = Append(out, ret.val)
    /\ phase' = "idle"
    /\ UNCHANGED <<doc, input, location, stack, ret, results, mode, last>>

MainEndRetry ==
    /\ mode = "main"
    /\ phase = "ret"
    /\ ~ret.some
    /\ phase' = IF location < Len(input) THEN "idle" ELSE "done"
    /\ location' = IF location < Len(input) THEN location + 1 ELSE location
    /\ UNCHANGED <<doc, input, stack, ret, results, out, mode, last>>

\* Line 175: None ends the for loop, and main returns.
MainEnd ==
    /\ mode = "main"
    /\ phase = "ret"
    /\ ~ret.some
    /\ phase' = "done"
    /\ UNCHANGED <<doc, input, location, stack, ret, results, out, mode, last>>

\* Line 194: a caller that holds the iterator calls next() itself.
DirectNext ==
    /\ mode = "direct"
    /\ phase = "idle"
    /\ Len(results) < MaxCalls
    /\ stack' = <<Frame(location)>>
    /\ phase' = "call"
    /\ UNCHANGED <<doc, input, location, ret, results, out, mode, last>>

\* Line 194: the caller takes what next() returned.
DirectItem ==
    /\ mode = "direct"
    /\ phase = "ret"
    /\ phase' = "idle"
    /\ UNCHANGED <<doc, input, location, stack, ret, results, out, mode, last>>

---------------------------------------------------------------------------
(* The primitives called one by one on a cursor, with the arguments that   *)
(* next() gives them.  last is the history of the last such call: the      *)
(* primitive, its argument, the location before and after, and the result. *)

CallChars == {Quote, "[", "]", ",", "{", "}", ":"}
CallLiterals == {NullLit, TrueLit, FalseLit}
CallPredicates == {IsDigit, IsStringChar, IsKeyChar}

NoCall == [op |-> "none"]

CursorParseChar ==
    /\ mode = "cursor"
    /\ \E c \in CallChars :
          LET r == parse_char(input, location, c)
          IN  /\ location' = r.loc
              /\ last' = [op |-> "parse_char", arg |-> c, pre |-> location,
                          ok |-> r.ok, post |-> r.loc]
    /\ UNCHANGED <<doc, input, stack, ret, results, out, mode, phase>>

CursorParseStr ==
    /\ mode = "cursor"
    /\ \E s \in CallLiterals :
          LET r == parse_str(input, location, s)
          IN  /\ location' = r.loc
              /\ last' = [op |-> "parse_str", arg |-> s, pre |-> location,
                          ok |-> r.ok, post |-> r.loc]
    /\ UNCHANGED <<doc, input, stack, ret, results, out, mode, phase>>

CursorParseWhile ==
    /\ mode = "cursor"
    /\ \E p \in CallPredicates :
          LET r == parse_while(input, location, p)
          IN  /\ location' = r.loc
              /\ last' = [op |-> "parse_while", arg |-> p, pre |-> location,
                          ok |-> r.some, post |-> r.loc,
                          run |-> IF r.some THEN r.val ELSE <<>>]
    /\ UNCHANGED <<doc, input, stack, ret, results, out, mode, phase>>

CursorParseWhitespace ==
    /\ mode = "cursor"
    /\ location' = parse_whitespace(input, location)
    /\ last' = [op |-> "parse_whitespace", pre |-> location,
                post |-> parse_whitespace(input, location)]
    /\ UNCHANGED <<doc, input, stack, ret, results, out, mode, phase>>

---------------------------------------------------------------------------

\* The consumers that are run on a document: main on every one; a direct
\* caller on the arbitrary inputs and on those of several values; the
\* primitives one by one on the shortest arbitrary inputs.
Modes(d) ==
    {"main"}
        \cup (IF d.kind \in {"short", "several"} THEN {"direct"} ELSE {})
        \cup (IF d \in CursorDocs THEN {"cursor"} ELSE {})

\* Input::new (lines 10-12) on the text of a document.
Init ==
    /\ doc \in Documents
    /\ input = doc.text
    /\ location = 0
    /\ stack = <<>>
    /\ ret = None
    /\ results = <<>>
    /\ out = <<>>
    /\ mode \in Modes(doc)
    /\ phase = "idle"
    /\ last = NoCall

Next ==
    \/ Step
    \/ MainNext \/ MainItem \/ MainEnd
    \/ DirectNext \/ DirectItem
    \/ CursorParseChar \/ CursorParseStr \/ CursorParseWhile
    \/ CursorParseWhitespace

Spec == Init /\ [][Next]_vars

\* The documents on which termination is checked.
LiveDocuments ==
    Short(MaxLiveTokens)
        \cup {Doc("value", g.text, g.bare, <<g.val>>) :
                 g \in WellFormed(MaxLiveNodes)}
        \cup {Doc("unterminated", t, t, <<>>) : t \in Cut(MaxLiveNodes)}
        \cup CorpusDocs

LiveInit ==
    /\ doc \in LiveDocuments
    /\ input = doc.text
    /\ location = 0
    /\ stack = <<>>
    /\ ret = None
    /\ results = <<>>
    /\ out = <<>>
    /\ mode \in Modes(doc) \ {"cursor"}
    /\ phase = "idle"
    /\ last = NoCall

LiveNext ==
    \/ Step
    \/ MainNext \/ MainItem \/ MainEnd
    \/ DirectNext \/ DirectItem

\* The scheduling of the code: it is sequential and nothing suspends it, so
\* a call of next() that can take a step takes it, and so does the for loop
\* of main.
LiveSpec ==
    /\ LiveInit
    /\ [][LiveNext]_vars
    /\ WF_vars(Step)
    /\ WF_vars(MainNext \/ MainItem \/ MainEnd)

---------------------------------------------------------------------------
(* The claims.                                                             *)

\* The first call of next() has returned.
FirstReturned == Len(results) >= 1

\* C1: parsing one value from an array with a trailing comma, such as
\* [1,2,], produces no value.
C1_TrailingCommaFails ==
    (doc.kind = "trailing_comma" /\ FirstReturned) => ~results[1].some

\* C2: for an input of several values separated by whitespace, such as
\* 1 2 3, the for loop of main yields every one of them, in order, before it
\* ends.
C2_SeveralValuesAllYielded ==
    (doc.kind = "several" /\ mode = "main" /\ phase = "done")
        => out = doc.expect

\* C3, as stated: once a call of next() has returned None, every later call
\* on the same cursor returns None.
C3_NoneIsPermanent ==
    \A i \in DOMAIN results : \A j \in DOMAIN results :
        (i < j /\ ~results[i].some) => ~results[j].some

\* C3, amended: the for loop of main stops at the first None: the call that
\* returned it is the last call, and what was printed is the values returned
\* before it.
C3_ForLoopStopsAtFirstNone ==
    mode = "main" =>
        /\ \A i \in DOMAIN results :
              (~results[i].some) =>
                  /\ i = Len(results)
                  /\ phase \in {"ret", "done"}
                  /\ stack = <<>>
        /\ \A i \in DOMAIN out : results[i] = Some(out[i])
        /\ phase = "done" => Len(results) = Len(out) + 1

\* The for loop has ended at a failure after it had printed a value, with
\* input left over.
C3_Witness ==
    /\ mode = "main"
    /\ phase = "done"
    /\ Len(out) >= 1
    /\ location < Len(input)

\* C4: an attempt to parse one value returns a value or None and never
\* aborts, whatever the length of a run of digits.
C4_NeverAborts == phase # "panic"

\* C5: the first attempt on a text that is one well-formed value returns the
\* value the grammar gives the text and leaves the cursor at the end of the
\* input, so that main prints exactly that value.
C5_WellFormedValueParses ==
    doc.kind = "value" =>
        /\ phase # "panic"
        /\ FirstReturned => results[1] = Some(doc.expect[1])
        /\ (Len(results) = 1 /\ phase = "ret") => location = Len(input)
        /\ (mode = "main" /\ phase = "done") => out = doc.expect

\* C6: the location stays within 0..length(input) and never decreases, and
\* the input is never modified, whatever primitives and attempts run.
C6_LocationInRangeAndForward ==
    /\ [](0 <= location /\ location <= Len(input) /\ input = doc.text)
    /\ [][location' >= location /\ input' = input]_vars

\* A second call of next() has reached the end of the input after the first
\* one had failed.
C6_Witness ==
    /\ mode = "direct"
    /\ Len(results) = 2
    /\ ~results[1].some
    /\ results[2].some
    /\ location = Len(input)
    /\ location > 1

\* C7: parse_char(c) returns true and advances by one iff the character at
\* location is c; parse_str(s) returns true and advances by length(s) iff the
\* next length(s) characters are s; otherwise they return false and leave
\* location unchanged; parse_while returns None with location unchanged when
\* the character at location does not satisfy the predicate.
C7_MatchIsAllOrNothing ==
    /\ last.op = "parse_char" =>
          /\ last.ok <=> (last.pre < Len(input) /\ input[last.pre + 1] = last.arg)
          /\ last.post = IF last.ok THEN last.pre + 1 ELSE last.pre
          /\ location = last.post
    /\ last.op = "parse_str" =>
          /\ last.ok <=>
                /\ last.pre + Len(last.arg) <= Len(input)
                /\ SubSeq(input, last.pre + 1, last.pre + Len(last.arg)) = last.arg
          /\ last.post = IF last.ok THEN last.pre + Len(last.arg) ELSE last.pre
          /\ location = last.post
    /\ (/\ last.op = "parse_while"
        /\ (last.pre = Len(input) \/ input[last.pre + 1] \notin last.arg))
           => (~last.ok /\ last.post = last.pre /\ location = last.pre)

\* parse_str has failed after a proper prefix of its literal, with enough
\* characters left for the whole literal.
C7_Witness ==
    /\ last.op = "parse_str"
    /\ ~last.ok
    /\ last.pre + Len(last.arg) <= Len(input)
    /\ SubSeq(input, last.pre + 1, last.pre + 3) = SubSeq(last.arg, 1, 3)

\* C8: an attempt on an empty string literal, on an unterminated string,
\* array or object, or on an array or object that holds one, returns no
\* value, whatever had been accumulated.
C8_MalformedYieldsNoValue ==
    doc.kind \in {"empty_string", "unterminated"} =>
        /\ phase # "panic"
        /\ FirstReturned => results[1] = None
        /\ out = <<>>

\* An array has failed at an empty string literal after it had accumulated
\* an element.
C8_Witness ==
    /\ doc.kind = "empty_string"
    /\ FirstReturned
    /\ ~results[1].some
    /\ input[1] = "["
    /\ input[2] # Quote
    /\ location > 3

\* C9: an array or object written with whitespace after an opening
\* delimiter, around ':' and ',' and before a closing delimiter parses, to
\* the value that its whitespace-free form parses to.
C9_WhitespaceIsInsignificant ==
    /\ doc.kind = "spaced" => phase # "panic"
    /\ (doc.kind = "spaced" /\ FirstReturned) => results[1] = Some(doc.expect[1])
    /\ (doc.kind = "value" /\ doc.text = doc.bare /\ FirstReturned)
           => results[1] = Some(doc.expect[1])

\* An object of two pairs written with whitespace has been parsed.
C9_Witness ==
    /\ doc.kind = "spaced"
    /\ Len(results) = 1
    /\ results[1].some
    /\ results[1].val.tag = "JsonObject"
    /\ Cardinality(DOMAIN results[1].val.m) = 2
    /\ Len(input) >= Len(doc.bare) + 5

\* Nothing is running: the for loop of main has ended (or the process has
\* aborted), or the direct caller is not inside a call of next().
Quiet ==
    IF mode = "main" THEN phase \in {"done", "panic"} ELSE phase # "call"

\* C10: every call of next() finishes; an iteration of the array loop or of
\* the object loop that does not return advances the location; a call that
\* returns a value has advanced the location; and the for loop of main ends,
\* having printed at most length(input) values.
C10_ParsingTerminates ==
    /\ [](Len(out) <= Len(input))
    /\ [][(Len(stack') < Len(stack) /\ ret'.some) => location' > Top.entry]_vars
    /\ [][(stack # <<>> /\ Len(stack') = Len(stack)
              /\ Top.pc \in {"arr_elem", "obj_elem"})
             => location' > Top.head]_vars
    /\ []<>Quiet

\* The for loop has ended after it had printed an array of two elements.
C10_Witness ==
    /\ mode = "main"
    /\ phase = "done"
    /\ Len(out) >= 1
    /\ out[1].tag = "JsonArray"
    /\ Len(out[1].v) >= 2

=============================================================================
